---------------------------- MODULE Spec2Model ----------------------------
(***************************************************************************)
(* Model of the geometry kernel (src/src/sim/GeometryUtilities.cpp) and of *)
(* the randomized wall follower                                            *)
(* (src/src/mouse/randomizedWallFollow/RandomizedWallFollow.cpp).          *)
(*                                                                         *)
(* A point (Cartesian) is a pair <<x, y>> of integers, a segment a pair of *)
(* points, a polygon the sequence of its vertices.  Arithmetic is exact:   *)
(* a quotient is a reduced fraction, and a value that depends on           *)
(* distAB = sqrt(...) carries the power of distAB it is multiplied by.     *)
(***************************************************************************)
EXTENDS Integers, Sequences, FiniteSets, TLC

VARIABLES
    segA, segB,        \* the two segments handed to the segment operations
    lpc,               \* which segment operation has run
    lret,              \* what it returned
    vertices,          \* the polygon handed to the polygon operations
    ppc,               \* which polygon operation has run
    pret,              \* what it returned
    polygons,          \* the argument of the pending call of convexHull
    points, n, k,      \* convexHull's locals (lines 184-193)
    hull,              \* its buffer of 2*n points, indexed from 0
    i, t,              \* the loop variables of lines 199 and 207
    hpc,               \* where convexHull is
    hret,              \* the polygon convexHull returned
    first,             \* the caller's copy of the first call's result
    round,             \* 1: the first call, 2: the call on its own result
    walls,             \* the maze: the inner walls, each <<cell, "N" or "E">>
    pos, dir,          \* the mouse's cell and heading (0 N, 1 E, 2 S, 3 W)
    mpc,               \* where RandomizedWallFollow::solve is
    lastFront,         \* what the most recent wallFront() returned
    turnedSince,       \* whether the mouse has turned since that query
    moves,             \* the calls of moveForward in the present step
    started,           \* whether a step has been started
    crashed            \* whether moveForward was called facing a wall

lineVars == <<segA, segB, lpc, lret>>
polyVars == <<vertices, ppc, pret>>
hullVars == <<polygons, points, n, k, hull, i, t, hpc, hret, first, round>>
mouseVars == <<walls, pos, dir, mpc, lastFront, turnedSince, moves, started, crashed>>
vars == <<lineVars, polyVars, hullVars, mouseVars>>

(***************************************************************************)
(* Bounds of the model.                                                    *)
(***************************************************************************)
LineGridMax == 3
PolyGridMax == 1
PolyMaxN == 4
CentroidGridMax == 1
CentroidMaxN == 4
HullGridMax == 2
HullMaxPts == 4
MazeSize == 2

LinePoints == (0..LineGridMax) \X (0..LineGridMax)
PolyPoints == (0..PolyGridMax) \X (0..PolyGridMax)
HullPoints == (0..HullGridMax) \X (0..HullGridMax)
CentroidPoints == ((0-CentroidGridMax)..CentroidGridMax) \X ((0-CentroidGridMax)..CentroidGridMax)

(***************************************************************************)
(* Exact numbers.  [n, d, e] stands for (n/d) * distAB^e with d > 0 and    *)
(* n/d reduced.  The two records with d = 0 are no numbers: NonFinite      *)
(* stands for what a float division by zero leaves (an infinity or a NaN;  *)
(* the code only multiplies it by and adds it to finite values afterwards, *)
(* which leaves it non-finite), Mixed for a sum of different powers of     *)
(* distAB, which the code never forms.                                     *)
(***************************************************************************)
NonFinite == [n |-> 0, d |-> 0, e |-> 0]
Mixed == [n |-> 1, d |-> 0, e |-> 0]

Abs(x) == IF x < 0 THEN 0 - x ELSE x

RECURSIVE Gcd(_, _)
Gcd(a, b) == IF b = 0 THEN a ELSE Gcd(b, a % b)

Num(num, den, e) ==
    LET g == Gcd(Abs(num), Abs(den))
        s == IF den < 0 THEN 0 - 1 ELSE 1
    IN  IF num = 0 THEN [n |-> 0, d |-> 1, e |-> 0]
        ELSE [n |-> s * (num \div g), d |-> s * (den \div g), e |-> e]

Exact(ix) == Num(ix, 1, 0)

IsNum(a) == a # NonFinite /\ a # Mixed

FAdd(a, b) ==
    IF a = Mixed \/ b = Mixed THEN Mixed
    ELSE IF a = NonFinite \/ b = NonFinite THEN NonFinite
    ELSE IF a.n = 0 THEN b
    ELSE IF b.n = 0 THEN a
    ELSE IF a.e # b.e THEN Mixed
    ELSE Num(a.n * b.d + b.n * a.d, a.d * b.d, a.e)

FNeg(a) == IF IsNum(a) THEN Num(0 - a.n, a.d, a.e) ELSE a

FSub(a, b) == FAdd(a, FNeg(b))

FMul(a, b) ==
    IF a = Mixed \/ b = Mixed THEN Mixed
    ELSE IF a = NonFinite \/ b = NonFinite THEN NonFinite
    ELSE Num(a.n * b.n, a.d * b.d, a.e + b.e)

\* a / b as the float division computes it: finite unless b is zero.
FDiv(a, b) ==
    IF a = Mixed \/ b = Mixed THEN Mixed
    ELSE IF a = NonFinite \/ b = NonFinite THEN NonFinite
    ELSE IF b.n = 0 THEN NonFinite
    ELSE Num(a.n * b.d, a.d * b.n, a.e - b.e)

\* sqrt(sq) for an integer sq >= 0: zero, or the symbol distAB itself.
FSqrt(sq) == IF sq = 0 THEN Exact(0) ELSE Num(1, 1, 1)

\* a with distAB^2 replaced by sq, which leaves a rational when a.e is even.
RECURSIVE FReduce(_, _)
FReduce(a, sq) ==
    IF ~IsNum(a) THEN a
    ELSE IF a.e >= 2 THEN FReduce(Num(a.n * sq, a.d, a.e - 2), sq)
    ELSE IF a.e <= 0 - 2 THEN FReduce(Num(a.n, a.d * sq, a.e + 2), sq)
    ELSE a

FAbs(a) == IF IsNum(a) THEN Num(Abs(a.n), a.d, a.e) ELSE a

(***************************************************************************)
(* crossProduct (GeometryUtilities.cpp, lines 10-20).                      *)
(***************************************************************************)
crossProduct(Z, A, B) ==
    (A[1] - Z[1]) * (B[2] - Z[2]) - (A[2] - Z[2]) * (B[1] - Z[1])

(***************************************************************************)
(* linesIntersect (lines 45-97).                                           *)
(***************************************************************************)
linesIntersect(A, B) ==
    LET c1 == crossProduct(A[1], B[1], A[2])
        c2 == crossProduct(A[1], B[2], A[2])
        c3 == crossProduct(B[1], A[1], B[2])
        c4 == crossProduct(B[1], A[2], B[2])
    IN  c1 * c2 <= 0 /\ c3 * c4 <= 0

(***************************************************************************)
(* getIntersectionPoint (lines 99-145).  The result is                     *)
(* [kind |-> "assert"] when the ASSERT of line 103 fires, and else         *)
(* [kind |-> "point", x |-> .., y |-> ..].                                 *)
(***************************************************************************)
rotatedFrame(A, B) ==
    LET a1x == Exact(A[1][1])
        a1y == Exact(A[1][2])
        \* Translate the system so that point A is on the origin.
        a2x == FSub(Exact(A[2][1]), a1x)
        a2y == FSub(Exact(A[2][2]), a1y)
        b1x0 == FSub(Exact(B[1][1]), a1x)
        b1y0 == FSub(Exact(B[1][2]), a1y)
        b2x0 == FSub(Exact(B[2][1]), a1x)
        b2y0 == FSub(Exact(B[2][2]), a1y)
        \* Discover the length of segment A-B.
        sq == (A[2][1] - A[1][1]) * (A[2][1] - A[1][1])
              + (A[2][2] - A[1][2]) * (A[2][2] - A[1][2])
        distAB == FSqrt(sq)
        \* Rotate the system so that point B is on the positive X axis.
        theCos == FDiv(a2x, distAB)
        theSin == FDiv(a2y, distAB)
        b1x == FAdd(FMul(b1x0, theCos), FMul(b1y0, theSin))
        b1y == FSub(FMul(b1y0, theCos), FMul(b1x0, theSin))
        b2x == FAdd(FMul(b2x0, theCos), FMul(b2y0, theSin))
        b2y == FSub(FMul(b2y0, theCos), FMul(b2x0, theSin))
        \* Discover the position of the intersection point along line A-B.
        ABpos == FAdd(b2x, FDiv(FMul(FSub(b1x, b2x), b2y), FSub(b2y, b1y)))
    IN  [sq |-> sq, theCos |-> theCos, theSin |-> theSin, ABpos |-> ABpos]

\* Line 144 without the translation back to A's first point.
intersectionNotTranslatedBack(A, B) ==
    LET f == rotatedFrame(A, B)
    IN  [kind |-> "point",
         x |-> FReduce(FMul(f.ABpos, f.theCos), f.sq),
         y |-> FReduce(FMul(f.ABpos, f.theSin), f.sq)]

\* Apply the discovered position to line A-B in the original coordinate system.
intersectionComputation(A, B) ==
    LET f == rotatedFrame(A, B)
    IN  [kind |-> "point",
         x |-> FAdd(Exact(A[1][1]), FReduce(FMul(f.ABpos, f.theCos), f.sq)),
         y |-> FAdd(Exact(A[1][2]), FReduce(FMul(f.ABpos, f.theSin), f.sq))]

getIntersectionPoint(A, B) ==
    IF ~linesIntersect(A, B) THEN [kind |-> "assert"]
    ELSE intersectionComputation(A, B)

(***************************************************************************)
(* polygonArea (lines 147-160): the shoelace sum, halved, absolute value.  *)
(***************************************************************************)
Next1(ix, len) == (ix % len) + 1

RECURSIVE shoelace(_, _)
shoelace(v, ix) ==
    IF ix > Len(v) THEN 0
    ELSE LET j == Next1(ix, Len(v))
         IN  v[ix][1] * v[j][2] - v[ix][2] * v[j][1] + shoelace(v, ix + 1)

\* Line 159 without std::abs.
polygonAreaSigned(v) == Num(shoelace(v, 1), 2, 0)

polygonArea(v) == FAbs(Num(shoelace(v, 1), 2, 0))

(***************************************************************************)
(* centroid (lines 22-43).                                                 *)
(***************************************************************************)
RECURSIVE centroidSum(_, _, _)
centroidSum(v, c, ix) ==
    IF ix > Len(v) THEN 0
    ELSE LET j == Next1(ix, Len(v))
         IN  (v[ix][c] + v[j][c]) * (v[ix][1] * v[j][2] - v[j][1] * v[ix][2])
             + centroidSum(v, c, ix + 1)

centroid(v) ==
    LET cx == FAbs(Exact(centroidSum(v, 1, 1)))
        cy == FAbs(Exact(centroidSum(v, 2, 1)))
        area == polygonArea(v)
    IN  <<FDiv(cx, FMul(area, Exact(6))), FDiv(cy, FMul(area, Exact(6)))>>

(***************************************************************************)
(* getLineSegments (lines 162-174).                                        *)
(***************************************************************************)
\* Each vertex paired with the one after it instead of the one before.
getLineSegmentsForward(v) ==
    [ix \in 1..Len(v) |-> <<v[ix], v[Next1(ix, Len(v))]>>]

getLineSegments(v) ==
    [ix \in 1..Len(v) |-> <<IF ix = 1 THEN v[Len(v)] ELSE v[ix - 1], v[ix]>>]

(***************************************************************************)
(* The segment operations, each called once on a pair of segments.         *)
(***************************************************************************)
LinesInit ==
    /\ segA \in LinePoints \X LinePoints
    /\ segB \in LinePoints \X LinePoints
    /\ lpc = "idle"
    /\ lret = "none"

LinesIdle ==
    /\ segA = <<<<0, 0>>, <<0, 0>>>>
    /\ segB = <<<<0, 0>>, <<0, 0>>>>
    /\ lpc = "off"
    /\ lret = "none"

CallLinesIntersect ==
    /\ lpc = "idle"
    /\ lret' = linesIntersect(segA, segB)
    /\ lpc' = "linesIntersect"
    /\ UNCHANGED <<segA, segB, polyVars, hullVars, mouseVars>>

CallGetIntersectionPoint ==
    /\ lpc = "idle"
    /\ lret' = getIntersectionPoint(segA, segB)
    /\ lpc' = "getIntersectionPoint"
    /\ UNCHANGED <<segA, segB, polyVars, hullVars, mouseVars>>

(***************************************************************************)
(* The polygon operations, each called once on a polygon.                  *)
(***************************************************************************)
PolyInit ==
    /\ \E m \in 1..PolyMaxN : vertices \in [1..m -> PolyPoints]
    /\ ppc = "idle"
    /\ pret = "none"

CentroidInit ==
    /\ \E m \in 3..CentroidMaxN : vertices \in [1..m -> CentroidPoints]
    /\ ppc = "idle"
    /\ pret = "none"

PolyIdle ==
    /\ vertices = <<>>
    /\ ppc = "off"
    /\ pret = "none"

CallPolygonArea ==
    /\ ppc = "idle"
    /\ pret' = polygonArea(vertices)
    /\ ppc' = "polygonArea"
    /\ UNCHANGED <<vertices, lineVars, hullVars, mouseVars>>

CallCentroid ==
    /\ ppc = "idle"
    /\ pret' = centroid(vertices)
    /\ ppc' = "centroid"
    /\ UNCHANGED <<vertices, lineVars, hullVars, mouseVars>>

CallGetLineSegments ==
    /\ ppc = "idle"
    /\ pret' = getLineSegments(vertices)
    /\ ppc' = "getLineSegments"
    /\ UNCHANGED <<vertices, lineVars, hullVars, mouseVars>>

(***************************************************************************)
(* convexHull (lines 176-217), one action per step of its loops.           *)
(***************************************************************************)
\* Lines 184-189: all the vertices of all the polygons, in order.
RECURSIVE Flatten(_)
Flatten(ps) == IF ps = <<>> THEN <<>> ELSE Head(ps) \o Flatten(Tail(ps))

\* Line 196: std::sort on Cartesian's order, lexicographic on (x, y).
PointLess(p, q) == p[1] < q[1] \/ (p[1] = q[1] /\ p[2] < q[2])

RECURSIVE Insert(_, _)
Insert(p, s) ==
    IF s = <<>> THEN <<p>>
    ELSE IF PointLess(p, Head(s)) THEN <<p>> \o s
    ELSE <<Head(s)>> \o Insert(p, Tail(s))

\* Line 196 left out: the points as they were collected.
Unsorted(s) == s

RECURSIVE SortPoints(_)
SortPoints(s) == IF s = <<>> THEN <<>> ELSE Insert(Head(s), SortPoints(Tail(s)))

\* Line 193: the buffer holds 2*n points.
\* A buffer of n points instead of 2*n.
hullSizeHalved(m) == m

hullSize(m) == 2 * m

\* Lines 200 and 208: the last two hull points and p make no strict
\* counter-clockwise turn.
\* The test with < in place of <=.
notLeftTurnStrict(h, kk, p) == crossProduct(h[kk - 2], h[kk - 1], p) < 0

notLeftTurn(h, kk, p) == crossProduct(h[kk - 2], h[kk - 1], p) <= 0

\* Line 207: the upper hull starts at the point before the last, and never
\* pops below the index after the lower hull's end.
upperStart(m) == m - 2

InHull(j) == 0 <= j /\ j < hullSize(n)
InPoints(j) == 0 <= j /\ j < n

\* points[j] of the code, whose indices start at 0.
Pt(j) == points[j + 1]

HullInit ==
    /\ \E m \in 0..HullMaxPts : \E pts \in [1..m -> HullPoints] :
          polygons \in {<<pts>>,
                        <<SubSeq(pts, 1, Len(pts) \div 2),
                          SubSeq(pts, Len(pts) \div 2 + 1, Len(pts))>>}
    /\ points = <<>> /\ n = 0 /\ k = 0 /\ hull = <<>> /\ i = 0 /\ t = 0
    /\ hpc = "call" /\ hret = <<>> /\ first = <<>> /\ round = 1

HullIdle ==
    /\ polygons = <<>>
    /\ points = <<>> /\ n = 0 /\ k = 0 /\ hull = <<>> /\ i = 0 /\ t = 0
    /\ hpc = "off" /\ hret = <<>> /\ first = <<>> /\ round = 0

\* Lines 184-196: collect the points, size the buffer, sort.
Begin ==
    /\ hpc = "call"
    /\ points' = SortPoints(Flatten(polygons))
    /\ n' = Len(Flatten(polygons))
    /\ k' = 0
    /\ hull' = [j \in 0..(hullSize(Len(Flatten(polygons))) - 1) |-> <<0, 0>>]
    /\ i' = 0
    /\ hpc' = "lower"
    /\ polygons' = <<>>
    /\ UNCHANGED <<t, hret, first, round, lineVars, polyVars, mouseVars>>

\* Lines 200-202: one turn of the while loop of the lower hull.
LowerPop ==
    /\ hpc = "lower" /\ i < n /\ k >= 2
    /\ IF InHull(k - 2) /\ InHull(k - 1) /\ InPoints(i)
          THEN /\ notLeftTurn(hull, k, Pt(i))
               /\ k' = k - 1
               /\ hpc' = hpc
          ELSE /\ k' = k
               /\ hpc' = "outOfRange"
    /\ UNCHANGED <<polygons, points, n, hull, i, t, hret, first, round,
                   lineVars, polyVars, mouseVars>>

\* Line 203, once the while loop has ended.
LowerPush ==
    /\ hpc = "lower" /\ i < n
    /\ ~(k >= 2 /\ InHull(k - 2) /\ InHull(k - 1) /\ InPoints(i)
         /\ notLeftTurn(hull, k, Pt(i)))
    /\ IF InHull(k) /\ InPoints(i) /\ (k >= 2 => InHull(k - 2) /\ InHull(k - 1))
          THEN /\ hull' = [hull EXCEPT ![k] = Pt(i)]
               /\ k' = k + 1
               /\ i' = i + 1
               /\ hpc' = hpc
          ELSE /\ UNCHANGED <<hull, k, i>>
               /\ hpc' = "outOfRange"
    /\ UNCHANGED <<polygons, points, n, t, hret, first, round, lineVars, polyVars, mouseVars>>

\* Line 207: the lower hull is built; set up the upper hull's loop.
LowerDone ==
    /\ hpc = "lower" /\ i >= n
    /\ i' = upperStart(n)
    /\ t' = k + 1
    /\ hpc' = "upper"
    /\ UNCHANGED <<polygons, points, n, k, hull, hret, first, round,
                   lineVars, polyVars, mouseVars>>

\* Lines 208-210: one turn of the while loop of the upper hull.
UpperPop ==
    /\ hpc = "upper" /\ i >= 0 /\ k >= t
    /\ IF InHull(k - 2) /\ InHull(k - 1) /\ InPoints(i)
          THEN /\ notLeftTurn(hull, k, Pt(i))
               /\ k' = k - 1
               /\ hpc' = hpc
          ELSE /\ k' = k
               /\ hpc' = "outOfRange"
    /\ UNCHANGED <<polygons, points, n, hull, i, t, hret, first, round,
                   lineVars, polyVars, mouseVars>>

\* Line 211, once the while loop has ended.
UpperPush ==
    /\ hpc = "upper" /\ i >= 0
    /\ ~(k >= t /\ InHull(k - 2) /\ InHull(k - 1) /\ InPoints(i)
         /\ notLeftTurn(hull, k, Pt(i)))
    /\ IF InHull(k) /\ InPoints(i) /\ (k >= t => InHull(k - 2) /\ InHull(k - 1))
          THEN /\ hull' = [hull EXCEPT ![k] = Pt(i)]
               /\ k' = k + 1
               /\ i' = i - 1
               /\ hpc' = hpc
          ELSE /\ UNCHANGED <<hull, k, i>>
               /\ hpc' = "outOfRange"
    /\ UNCHANGED <<polygons, points, n, t, hret, first, round, lineVars, polyVars, mouseVars>>

\* Lines 214-216: cut the buffer to k points and return it.
Return ==
    /\ hpc = "upper" /\ i < 0
    /\ hret' = [j \in 1..k |-> hull[j - 1]]
    /\ hpc' = "done"
    /\ UNCHANGED <<polygons, points, n, k, hull, i, t, first, round,
                   lineVars, polyVars, mouseVars>>

\* The caller hands the returned polygon, closing vertex included, to
\* convexHull again.
Refeed ==
    /\ hpc = "done" /\ round = 1
    /\ first' = hret
    /\ polygons' = <<hret>>
    /\ round' = 2
    /\ hpc' = "call"
    /\ UNCHANGED <<points, n, k, hull, i, t, hret, lineVars, polyVars, mouseVars>>

(***************************************************************************)
(* RandomizedWallFollow (RandomizedWallFollow.cpp, lines 7-38) driving a   *)
(* mouse through a static maze of MazeSize x MazeSize cells.  The maze is  *)
(* closed by its outer walls; the sensors report the walls as they are.    *)
(***************************************************************************)
Cells == (0..(MazeSize - 1)) \X (0..(MazeSize - 1))

WallSlots ==
    {<<c, "N">> : c \in {d \in Cells : d[2] < MazeSize - 1}}
        \cup {<<c, "E">> : c \in {d \in Cells : d[1] < MazeSize - 1}}

\* There is a wall on side d of cell c.
WallAt(c, d) ==
    CASE d = 0 -> c[2] = MazeSize - 1 \/ <<c, "N">> \in walls
      [] d = 1 -> c[1] = MazeSize - 1 \/ <<c, "E">> \in walls
      [] d = 2 -> c[2] = 0 \/ <<<<c[1], c[2] - 1>>, "N">> \in walls
      [] d = 3 -> c[1] = 0 \/ <<<<c[1] - 1, c[2]>>, "E">> \in walls

RightOf(d) == (d + 1) % 4
LeftOf(d) == (d + 3) % 4

wallFront == WallAt(pos, dir)
wallRight == WallAt(pos, RightOf(dir))
wallLeft == WallAt(pos, LeftOf(dir))

\* The cell in front of cell c for heading d.
Ahead(c, d) ==
    CASE d = 0 -> <<c[1], c[2] + 1>>
      [] d = 1 -> <<c[1] + 1, c[2]>>
      [] d = 2 -> <<c[1], c[2] - 1>>
      [] d = 3 -> <<c[1] - 1, c[2]>>

\* moveForward: one cell ahead, or a crash into the wall in front.
moveForward ==
    /\ moves' = moves + 1
    /\ IF wallFront
          THEN crashed' = TRUE /\ pos' = pos
          ELSE crashed' = crashed /\ pos' = Ahead(pos, dir)

MouseInit ==
    /\ walls \in SUBSET WallSlots
    /\ pos = <<0, 0>>
    /\ dir \in 0..3
    /\ mpc = "solve"
    /\ lastFront = "none" /\ turnedSince = FALSE
    /\ moves = 0 /\ started = FALSE /\ crashed = FALSE

MouseIdle ==
    /\ walls = {}
    /\ pos = <<0, 0>>
    /\ dir = 0
    /\ mpc = "off"
    /\ lastFront = "none" /\ turnedSince = FALSE
    /\ moves = 0 /\ started = FALSE /\ crashed = FALSE

\* Lines 10-16: rand() % 2 picks the step.
SolveRight ==
    /\ mpc = "solve"
    /\ mpc' = "rightWall"
    /\ moves' = 0 /\ started' = TRUE
    /\ UNCHANGED <<walls, pos, dir, lastFront, turnedSince, crashed,
                   lineVars, polyVars, hullVars>>

SolveLeft ==
    /\ mpc = "solve"
    /\ mpc' = "leftWall"
    /\ moves' = 0 /\ started' = TRUE
    /\ UNCHANGED <<walls, pos, dir, lastFront, turnedSince, crashed,
                   lineVars, polyVars, hullVars>>

\* Lines 21-23.
RightWall ==
    /\ mpc = "rightWall"
    /\ IF ~wallRight
          THEN dir' = RightOf(dir) /\ turnedSince' = TRUE
          ELSE UNCHANGED <<dir, turnedSince>>
    /\ mpc' = "rightFront"
    /\ UNCHANGED <<walls, pos, lastFront, moves, started, crashed,
                   lineVars, polyVars, hullVars>>

\* Line 24: the wallFront() query of the while loop.
RightFront ==
    /\ mpc = "rightFront"
    /\ lastFront' = wallFront
    /\ turnedSince' = FALSE
    /\ mpc' = IF wallFront THEN "rightTurn" ELSE "rightMove"
    /\ UNCHANGED <<walls, pos, dir, moves, started, crashed,
                   lineVars, polyVars, hullVars>>

\* Line 24 as an if instead of a while: one turn, then forward.
RightTurnThenMove ==
    /\ mpc = "rightTurn"
    /\ dir' = LeftOf(dir)
    /\ turnedSince' = TRUE
    /\ mpc' = "rightMove"
    /\ UNCHANGED <<walls, pos, lastFront, moves, started, crashed,
                   lineVars, polyVars, hullVars>>

\* Line 25: the body of the while loop, which then queries again.
RightTurn ==
    /\ mpc = "rightTurn"
    /\ dir' = LeftOf(dir)
    /\ turnedSince' = TRUE
    /\ mpc' = "rightFront"
    /\ UNCHANGED <<walls, pos, lastFront, moves, started, crashed,
                   lineVars, polyVars, hullVars>>

\* Line 27.
RightMove ==
    /\ mpc = "rightMove"
    /\ moveForward
    /\ mpc' = "solve"
    /\ UNCHANGED <<walls, dir, lastFront, turnedSince, started,
                   lineVars, polyVars, hullVars>>

\* Lines 31-33.
LeftWall ==
    /\ mpc = "leftWall"
    /\ IF ~wallLeft
          THEN dir' = LeftOf(dir) /\ turnedSince' = TRUE
          ELSE UNCHANGED <<dir, turnedSince>>
    /\ mpc' = "leftFront"
    /\ UNCHANGED <<walls, pos, lastFront, moves, started, crashed,
                   lineVars, polyVars, hullVars>>

\* Line 34: the wallFront() query of the while loop.
LeftFront ==
    /\ mpc = "leftFront"
    /\ lastFront' = wallFront
    /\ turnedSince' = FALSE
    /\ mpc' = IF wallFront THEN "leftTurn" ELSE "leftMove"
    /\ UNCHANGED <<walls, pos, dir, moves, started, crashed,
                   lineVars, polyVars, hullVars>>

\* Line 35: the body of the while loop, which then queries again.
LeftTurn ==
    /\ mpc = "leftTurn"
    /\ dir' = RightOf(dir)
    /\ turnedSince' = TRUE
    /\ mpc' = "leftFront"
    /\ UNCHANGED <<walls, pos, lastFront, moves, started, crashed,
                   lineVars, polyVars, hullVars>>

\* Line 37.
LeftMove ==
    /\ mpc = "leftMove"
    /\ moveForward
    /\ mpc' = "solve"
    /\ UNCHANGED <<walls, dir, lastFront, turnedSince, started,
                   lineVars, polyVars, hullVars>>

(***************************************************************************)
(* Specifications.                                                         *)
(***************************************************************************)
InitLines == LinesInit /\ PolyIdle /\ HullIdle /\ MouseIdle
NextLines == CallLinesIntersect \/ CallGetIntersectionPoint
SpecLines == InitLines /\ [][NextLines]_vars

InitPolygon == PolyInit /\ LinesIdle /\ HullIdle /\ MouseIdle
NextPolygon == CallPolygonArea \/ CallGetLineSegments
SpecPolygon == InitPolygon /\ [][NextPolygon]_vars

InitHull == HullInit /\ LinesIdle /\ PolyIdle /\ MouseIdle
NextHull ==
    \/ Begin \/ LowerPop \/ LowerPush \/ LowerDone
    \/ UpperPop \/ UpperPush \/ Return \/ Refeed
SpecHull == InitHull /\ [][NextHull]_vars

InitMouse == MouseInit /\ LinesIdle /\ PolyIdle /\ HullIdle
NextMouse ==
    \/ SolveRight \/ SolveLeft
    \/ RightWall \/ RightFront \/ RightTurn \/ RightMove
    \/ LeftWall \/ LeftFront \/ LeftTurn \/ LeftMove
SpecMouse == InitMouse /\ [][NextMouse]_vars

InitCentroid == CentroidInit /\ LinesIdle /\ HullIdle /\ MouseIdle
NextCentroid == CallCentroid \/ CallPolygonArea
SpecCentroid == InitCentroid /\ [][NextCentroid]_vars

(***************************************************************************)
(* Reference geometry, used to state the properties.                       *)
(***************************************************************************)
Min(a, b) == IF a < b THEN a ELSE b
Max(a, b) == IF a < b THEN b ELSE a

\* Point P lies on the closed segment S.
OnSegment(P, S) ==
    /\ crossProduct(S[1], S[2], P) = 0
    /\ Min(S[1][1], S[2][1]) <= P[1] /\ P[1] <= Max(S[1][1], S[2][1])
    /\ Min(S[1][2], S[2][2]) <= P[2] /\ P[2] <= Max(S[1][2], S[2][2])

Sign(x) == IF x > 0 THEN 1 ELSE IF x < 0 THEN 0 - 1 ELSE 0

\* The closed segments S and T have at least one point in common.
SharePoint(S, T) ==
    \/ /\ Sign(crossProduct(S[1], S[2], T[1])) * Sign(crossProduct(S[1], S[2], T[2])) < 0
       /\ Sign(crossProduct(T[1], T[2], S[1])) * Sign(crossProduct(T[1], T[2], S[2])) < 0
    \/ OnSegment(T[1], S) \/ OnSegment(T[2], S)
    \/ OnSegment(S[1], T) \/ OnSegment(S[2], T)

\* The direction vectors of S and T are linearly dependent.
Parallel(S, T) ==
    (S[2][1] - S[1][1]) * (T[2][2] - T[1][2]) - (S[2][2] - S[1][2]) * (T[2][1] - T[1][1]) = 0

\* The rational point <<x, y>> lies on the line through S[1] and S[2].
OnLine(x, y, S) ==
    FSub(FMul(Exact(S[2][1] - S[1][1]), FSub(y, Exact(S[1][2]))),
         FMul(Exact(S[2][2] - S[1][2]), FSub(x, Exact(S[1][1])))) = Exact(0)

IsRational(a) == IsNum(a) /\ a.e = 0

Swap(S) == <<S[2], S[1]>>

(***************************************************************************)
(* Properties of the segment operations (SpecLines).                       *)
(***************************************************************************)

\* C1: linesIntersect returns true exactly when the two closed segments
\* have at least one point in common.
C1_IntersectIffSharePoint ==
    lpc = "linesIntersect" => (lret = SharePoint(segA, segB))

\* C2: on segments that have no point in common, getIntersectionPoint ends
\* in the failed ASSERT and returns no point.
C2_DisjointAsserts ==
    (lpc = "getIntersectionPoint" /\ ~SharePoint(segA, segB))
        => lret.kind = "assert"

\* C3: when A has non-zero length, B is not parallel to A and the segments
\* meet, getIntersectionPoint returns the one point that lies on both;
\* that point is (1/2, 1/2) for (0,0)-(1,1) and (0,1)-(1,0), and it is the
\* same whichever endpoint of A or of B is listed first.
C3_Applies ==
    /\ lpc = "getIntersectionPoint"
    /\ segA[1] # segA[2]
    /\ ~Parallel(segA, segB)
    /\ SharePoint(segA, segB)

C3_ReturnsCommonPoint ==
    C3_Applies =>
        /\ lret.kind = "point"
        /\ IsRational(lret.x) /\ IsRational(lret.y)
        /\ OnLine(lret.x, lret.y, segA)
        /\ OnLine(lret.x, lret.y, segB)
        /\ getIntersectionPoint(Swap(segA), segB) = lret
        /\ getIntersectionPoint(segA, Swap(segB)) = lret
        /\ (segA = <<<<0, 0>>, <<1, 1>>>> /\ segB = <<<<0, 1>>, <<1, 0>>>>)
              => (lret.x = Num(1, 2, 0) /\ lret.y = Num(1, 2, 0))

C3_Witness ==
    /\ C3_Applies
    /\ segA = <<<<0, 0>>, <<1, 1>>>> /\ segB = <<<<0, 1>>, <<1, 0>>>>
    /\ lret = [kind |-> "point", x |-> Num(1, 2, 0), y |-> Num(1, 2, 0)]

(***************************************************************************)
(* Properties of the polygon operations (SpecPolygon, SpecCentroid).       *)
(***************************************************************************)
Rotate(v, r) == [ix \in 1..Len(v) |-> v[((ix + r - 1) % Len(v)) + 1]]

Reverse(v) == [ix \in 1..Len(v) |-> v[Len(v) + 1 - ix]]

UnitSquare == <<<<0, 0>>, <<1, 0>>, <<1, 1>>, <<0, 1>>>>

\* C4 as stated: getLineSegments returns n segments, segment ix joining
\* vertex ix to vertex ix+1 mod n, so the first is (v[0], v[1]) and the last
\* (v[n-1], v[0]).
C4_SegmentsStartAtFirstVertex ==
    ppc = "getLineSegments" =>
        /\ Len(pret) = Len(vertices)
        /\ \A ix \in 1..Len(vertices) :
              pret[ix] = <<vertices[ix], vertices[Next1(ix, Len(vertices))]>>

\* C4 as amended: getLineSegments returns n segments, segment ix joining
\* vertex ix-1 mod n to vertex ix, so the first is (v[n-1], v[0]) and the
\* last (v[n-2], v[n-1]).
C4_SegmentsEndAtEachVertex ==
    ppc = "getLineSegments" =>
        /\ Len(pret) = Len(vertices)
        /\ \A ix \in 1..Len(vertices) :
              pret[ix] = <<vertices[((ix + Len(vertices) - 2) % Len(vertices)) + 1],
                          vertices[ix]>>
        /\ pret[1] = <<vertices[Len(vertices)], vertices[1]>>
        /\ Len(vertices) >= 2 =>
              pret[Len(vertices)]
                  = <<vertices[Len(vertices) - 1], vertices[Len(vertices)]>>

C4_Witness ==
    /\ ppc = "getLineSegments"
    /\ vertices = UnitSquare
    /\ pret = << <<<<0, 1>>, <<0, 0>>>>, <<<<0, 0>>, <<1, 0>>>>,
                 <<<<1, 0>>, <<1, 1>>>>, <<<<1, 1>>, <<0, 1>>>> >>

\* The polygon v is simple: its vertices are distinct, edges that are not
\* neighbours have no point in common, and neighbouring edges have only
\* their shared vertex in common.
Edge(v, ix) == <<v[ix], v[Next1(ix, Len(v))]>>

IsSimple(v) ==
    /\ Len(v) >= 3
    /\ \A ix, j \in 1..Len(v) : ix # j => v[ix] # v[j]
    /\ \A ix, j \in 1..Len(v) :
          ix < j =>
             IF Next1(ix, Len(v)) = j
                THEN ~OnSegment(Edge(v, j)[2], Edge(v, ix))
                     /\ ~OnSegment(Edge(v, ix)[1], Edge(v, j))
             ELSE IF Next1(j, Len(v)) = ix
                THEN ~OnSegment(Edge(v, ix)[2], Edge(v, j))
                     /\ ~OnSegment(Edge(v, j)[1], Edge(v, ix))
             ELSE ~SharePoint(Edge(v, ix), Edge(v, j))

\* The area-weighted centroid: cx = (1/(6A)) * sum (x[ix]+x[ix+1]) *
\* (x[ix]*y[ix+1] - x[ix+1]*y[ix]), cy likewise, A the signed area.
AreaWeightedCentroid(v) ==
    <<FDiv(Exact(centroidSum(v, 1, 1)), FMul(Exact(6), Num(shoelace(v, 1), 2, 0))),
      FDiv(Exact(centroidSum(v, 2, 1)), FMul(Exact(6), Num(shoelace(v, 1), 2, 0)))>>

\* C7: for a simple polygon of non-zero area, anywhere in the plane and in
\* either winding order, centroid returns the area-weighted centroid.
C7_CentroidIsAreaWeighted ==
    (ppc = "centroid" /\ IsSimple(vertices) /\ shoelace(vertices, 1) # 0)
        => pret = AreaWeightedCentroid(vertices)

\* C8: polygonArea is non-negative, the same for every rotation of the
\* vertex sequence and for the reversed sequence, and 1 for the unit square.
C8_AreaInvariant ==
    ppc = "polygonArea" =>
        /\ IsRational(pret) /\ pret.n >= 0
        /\ \A r \in 1..Len(vertices) : polygonArea(Rotate(vertices, r)) = pret
        /\ polygonArea(Reverse(vertices)) = pret
        /\ vertices = UnitSquare => pret = Exact(1)

C8_Witness ==
    /\ ppc = "polygonArea"
    /\ vertices = Reverse(Rotate(UnitSquare, 1))
    /\ pret = Exact(1)

(***************************************************************************)
(* Properties of convexHull (SpecHull).                                    *)
(***************************************************************************)
ToSet(s) == {s[j] : j \in 1..Len(s)}

ThreeNonCollinear(S) == \E a, b, c \in S : crossProduct(a, b, c) # 0

\* p lies in the closed triangle a, b, c, which is not degenerate.
InTriangle(p, a, b, c) ==
    LET o == Sign(crossProduct(a, b, c))
    IN  /\ o # 0
        /\ o * crossProduct(a, b, p) >= 0
        /\ o * crossProduct(b, c, p) >= 0
        /\ o * crossProduct(c, a, p) >= 0

\* p is an extreme point of the set S: it is no convex combination of the
\* other points of S.
IsExtreme(p, S) ==
    /\ ~\E a, b \in S \ {p} : OnSegment(p, <<a, b>>)
    /\ ~\E a, b, c \in S \ {p} : InTriangle(p, a, b, c)

\* The points of the sequence s are the corners of a convex polygon: they
\* are pairwise distinct, not all on one line, and each is an extreme point.
InConvexPosition(s) ==
    /\ Len(s) >= 3
    /\ Cardinality(ToSet(s)) = Len(s)
    /\ ThreeNonCollinear(ToSet(s))
    /\ \A p \in ToSet(s) : IsExtreme(p, ToSet(s))

\* C5: on an input with three points that are not collinear, convexHull
\* returns h[0..m] with h[m] = h[0], where h[0..m-1] are pairwise distinct,
\* are exactly the extreme points of the input, turn strictly
\* counter-clockwise at every consecutive triple, and enclose every input
\* point.
C5_HullIsExtremePointsCCW ==
    (hpc = "done" /\ ThreeNonCollinear(ToSet(points))) =>
        LET m == Len(hret) - 1
            h(j) == hret[((j - 1) % m) + 1]
        IN  /\ m >= 3
            /\ hret[m + 1] = hret[1]
            /\ \A a, b \in 1..m : a # b => hret[a] # hret[b]
            /\ {hret[j] : j \in 1..m}
                   = {p \in ToSet(points) : IsExtreme(p, ToSet(points))}
            /\ \A j \in 1..m : crossProduct(h(j), h(j + 1), h(j + 2)) > 0
            /\ \A j \in 1..m : \A p \in ToSet(points) :
                   crossProduct(h(j), h(j + 1), p) >= 0

C5_Witness ==
    /\ hpc = "done" /\ round = 1
    /\ points = <<<<0, 0>>, <<1, 1>>, <<1, 2>>, <<2, 0>>>>
    /\ hret = <<<<0, 0>>, <<2, 0>>, <<1, 2>>, <<0, 0>>>>

\* C6: on the vertices of a convex polygon, convexHull returns exactly
\* those vertices and the closing vertex; and on its own result, closing
\* vertex included, it returns the same sequence again.
C6_HullIdempotentOnConvex ==
    /\ (hpc = "done" /\ round = 1 /\ InConvexPosition(points)) =>
          /\ Len(hret) = n + 1
          /\ hret[n + 1] = hret[1]
          /\ ToSet(hret) = ToSet(points)
    /\ (hpc = "done" /\ round = 2 /\ Len(first) >= 4
            /\ InConvexPosition(SubSeq(first, 1, Len(first) - 1))) =>
          hret = first

C6_Witness ==
    /\ hpc = "done" /\ round = 2
    /\ first = <<<<0, 0>>, <<2, 0>>, <<2, 2>>, <<0, 2>>, <<0, 0>>>>
    /\ hret = first

\* C9: on every input, every index into the hull buffer is in [0, 2n) and
\* every index into points in [0, n); on 0, 1 or 2 points the function
\* returns nothing, the point, or the segment there and back.
C9_IndicesInRange ==
    /\ hpc # "outOfRange"
    /\ (hpc = "lower" /\ i < n) =>
          /\ 0 <= i /\ i < n
          /\ 0 <= k /\ k < 2 * n
          /\ k >= 2 => (k - 2 >= 0 /\ k - 1 < 2 * n)
    /\ (hpc = "upper" /\ i >= 0) =>
          /\ 0 <= i /\ i < n
          /\ 0 <= k /\ k < 2 * n
          /\ k >= t => (k - 2 >= 0 /\ k - 1 < 2 * n)
    /\ hpc \in {"lower", "upper", "done"} => DOMAIN hull = 0..(2 * n - 1)
    /\ (hpc = "done" /\ n = 0) => hret = <<>>
    /\ (hpc = "done" /\ n = 1) => hret = points
    /\ (hpc = "done" /\ n = 2) => hret = <<points[1], points[2], points[1]>>

C9_Witness ==
    /\ hpc = "done" /\ round = 1
    /\ points = <<<<0, 0>>, <<1, 1>>>>
    /\ hret = <<<<0, 0>>, <<1, 1>>, <<0, 0>>>>

(***************************************************************************)
(* Properties of the wall follower (SpecMouse).                            *)
(***************************************************************************)

\* C10: whichever step the random choice selects, moveForward is called
\* once per step, and only when the most recent wallFront() query, with no
\* turn after it, returned false; the mouse is never sent into a wall.
C10_MovesOnlyWhenFrontClear ==
    /\ mpc \in {"rightMove", "leftMove"} =>
          /\ lastFront = FALSE
          /\ ~turnedSince
          /\ ~wallFront
          /\ moves = 0
    /\ (mpc = "solve" /\ started) => moves = 1
    /\ moves <= 1
    /\ ~crashed

C10_Witness ==
    /\ mpc = "solve" /\ started /\ moves = 1
    /\ pos = <<1, 1>>
    /\ walls # {}

=============================================================================
